---- MODULE Spec2Model ----
(***************************************************************************)
(* Model of scripts/make_header.py: the blog header generator.  Strings    *)
(* are sequences of one-character strings so that substring search,        *)
(* strip(), re.sub(), str() and int() are computed, not assumed.           *)
(***************************************************************************)
EXTENDS Integers, Sequences, FiniteSets, TLC

VARIABLES pc, now, dir, posts, dates, timedeltas, titles, plot, saved,
          stdout, err, call, ret

vars == <<pc, now, dir, posts, dates, timedeltas, titles, plot, saved,
          stdout, err, call, ret>>

\* the variables of the run, which a direct call of a function leaves alone
runVars == <<now, dir, posts, dates, timedeltas, titles, plot, saved,
             stdout, err>>

(***************************************************************************)
(* Bounds of the model.                                                    *)
(***************************************************************************)
MaxPosts == 3
MaxPad == 13
MaxArgs == 3

(***************************************************************************)
(* Strings.                                                                *)
(***************************************************************************)
Digits == <<"0", "1", "2", "3", "4", "5", "6", "7", "8", "9">>

IsDigit(c) == \E i \in 1..10 : Digits[i] = c

DigitVal(c) == (CHOOSE i \in 1..10 : Digits[i] = c) - 1

Whitespace == {" ", "\n", "\t"}

\* s[i..i+Len(pat)-1] = pat
MatchAt(s, pat, i) ==
    /\ i + Len(pat) - 1 <= Len(s)
    /\ \A j \in 1..Len(pat) : s[i + j - 1] = pat[j]

\* Python's `pat in s`
Contains(s, pat) == \E i \in 1..Len(s) : MatchAt(s, pat, i)

RECURSIVE LStrip(_)
LStrip(s) ==
    IF s # <<>> /\ Head(s) \in Whitespace THEN LStrip(Tail(s)) ELSE s

RECURSIVE RStrip(_)
RStrip(s) ==
    IF s # <<>> /\ s[Len(s)] \in Whitespace
    THEN RStrip(SubSeq(s, 1, Len(s) - 1))
    ELSE s

\* str.strip()
Strip(s) == RStrip(LStrip(s))

\* re.sub(pat, '', s) for a literal pattern: leftmost non-overlapping matches
RECURSIVE ReSubEmpty(_, _)
ReSubEmpty(pat, s) ==
    IF s = <<>> THEN <<>>
    ELSE IF MatchAt(s, pat, 1)
         THEN ReSubEmpty(pat, SubSeq(s, Len(pat) + 1, Len(s)))
         ELSE <<Head(s)>> \o ReSubEmpty(pat, Tail(s))

Abs(n) == IF n < 0 THEN -n ELSE n

\* str(n) for n >= 0
RECURSIVE StrNat(_)
StrNat(n) ==
    IF n < 10 THEN <<Digits[n + 1]>>
    ELSE StrNat(n \div 10) \o <<Digits[(n % 10) + 1]>>

\* int(s) for digit strings
RECURSIVE IntDigits(_)
IntDigits(s) ==
    IF s = <<>> THEN 0
    ELSE 10 * IntDigits(SubSeq(s, 1, Len(s) - 1)) + DigitVal(s[Len(s)])

\* int(s): an optional sign followed by digits
IntOf(s) ==
    IF Head(s) = "+" THEN IntDigits(Tail(s))
    ELSE IF Head(s) = "-" THEN -IntDigits(Tail(s))
    ELSE IntDigits(s)

(***************************************************************************)
(* date_match: re.match(r'\d{4}-\d{2}-\d{2}', date_str).  The result is    *)
(* <<>> for None and <<group>> for a match.                                *)
(***************************************************************************)
date_match(date_str) ==
    IF /\ Len(date_str) >= 10
       /\ \A i \in {1, 2, 3, 4, 6, 7, 9, 10} : IsDigit(date_str[i])
       /\ date_str[5] = "-"
       /\ date_str[8] = "-"
    THEN <<SubSeq(date_str, 1, 10)>>
    ELSE <<>>

(***************************************************************************)
(* Calendar.                                                               *)
(***************************************************************************)
IsLeap(y) == (y % 4 = 0) /\ ((y % 100 # 0) \/ (y % 400 = 0))

DaysInMonth(y, m) ==
    IF m = 2 THEN (IF IsLeap(y) THEN 29 ELSE 28)
    ELSE IF m \in {4, 6, 9, 11} THEN 30 ELSE 31

RECURSIVE DaysBeforeMonth(_, _)
DaysBeforeMonth(y, m) ==
    IF m = 1 THEN 0 ELSE DaysBeforeMonth(y, m - 1) + DaysInMonth(y, m - 1)

DaysBeforeYear(y) ==
    (y - 1) * 365 + ((y - 1) \div 4) - ((y - 1) \div 100) + ((y - 1) \div 400)

\* date.toordinal()
ToOrdinal(d) == DaysBeforeYear(d.y) + DaysBeforeMonth(d.y, d.m) + d.d

\* the fields strptime reads out of a string matched by date_match
ParseFields(s) ==
    [y |-> IntDigits(SubSeq(s, 1, 4)),
     m |-> IntDigits(SubSeq(s, 6, 7)),
     d |-> IntDigits(SubSeq(s, 9, 10))]

\* variant: the day is not checked against the month
StrptimeOk_Lenient(s) ==
    LET f == ParseFields(s) IN
    /\ f.y >= 1
    /\ f.m \in 1..99
    /\ f.d \in 1..99

\* dt.datetime.strptime(s, '%Y-%m-%d') succeeds
StrptimeOk(s) ==
    LET f == ParseFields(s) IN
    /\ f.y >= 1
    /\ f.m \in 1..12
    /\ f.d \in 1..DaysInMonth(f.y, f.m)

SecsPerDay == 86400

\* variant: the time of day of the reference is dropped
TimedeltaDays_DateOnly(date, compare_date) ==
    ToOrdinal(date) - ToOrdinal(compare_date.date)

\* (date - compare_date).days : timedelta normalises, so days is the floor
TimedeltaDays(date, compare_date) ==
    ((ToOrdinal(date) - ToOrdinal(compare_date.date)) * SecsPerDay
        - compare_date.secs) \div SecsPerDay

(***************************************************************************)
(* extract_title: a file is the sequence of the lines readline() returns   *)
(* (each non-empty); readline() past the end returns the empty string.     *)
(***************************************************************************)
TitleMark == <<"t", "i", "t", "l", "e", ":">>

TitlePattern == TitleMark \o <<" ">>

Sentinel == <<"U", "H", " ", "O", "H", "!">>

ScanLimit == 10

Readline(file, pos) == IF pos <= Len(file) THEN file[pos] ELSE <<>>

\* variant: the loop is left one line earlier
RECURSIVE ScanLines_Early(_, _, _)
ScanLines_Early(file, pos, cnt) ==
    LET line == Readline(file, pos) IN
    IF line = <<>> THEN line
    ELSE IF Contains(line, TitleMark) \/ cnt >= ScanLimit THEN line
    ELSE ScanLines_Early(file, pos + 1, cnt + 1)

\* the while loop: the line held when the loop is left
RECURSIVE ScanLines(_, _, _)
ScanLines(file, pos, cnt) ==
    LET line == Readline(file, pos) IN
    IF line = <<>> THEN line
    ELSE IF Contains(line, TitleMark) \/ cnt > ScanLimit THEN line
    ELSE ScanLines(file, pos + 1, cnt + 1)

extract_title(file) ==
    LET scanned == ScanLines(file, 1, 0)
        line == IF ~Contains(scanned, TitleMark) THEN Sentinel ELSE scanned
    IN  ReSubEmpty(TitlePattern, Strip(line))

(***************************************************************************)
(* filter_titles.                                                          *)
(***************************************************************************)
Min(a, b) == IF a < b THEN a ELSE b

DefaultCutoff == -30

\* variant: the cutoff day itself is kept
Keep_Inclusive(delta, cutoff) == delta >= cutoff

Keep(delta, cutoff) == delta > cutoff

Adjust(delta) == delta + 1

\* the loop over zip(post_titles, deltas): the kept (title, delta + 1) pairs
RECURSIVE FilterPairs(_, _, _, _)
FilterPairs(post_titles, deltas, cutoff, i) ==
    IF i > Min(Len(post_titles), Len(deltas)) THEN <<>>
    ELSE (IF Keep(deltas[i], cutoff)
          THEN <<(<<post_titles[i], Adjust(deltas[i])>>)>>
          ELSE <<>>)
         \o FilterPairs(post_titles, deltas, cutoff, i + 1)

\* variant: a new pair goes before the pairs of equal key
RECURSIVE InsertSorted_Unstable(_, _)
InsertSorted_Unstable(pair, sq) ==
    IF sq = <<>> THEN <<pair>>
    ELSE IF sq[1][2] < pair[2]
         THEN <<sq[1]>> \o InsertSorted_Unstable(pair, Tail(sq))
         ELSE <<pair>> \o sq

\* position of a new pair in a sorted list: after every pair whose key is
\* not greater (sorted() is stable)
RECURSIVE InsertSorted(_, _)
InsertSorted(pair, sq) ==
    IF sq = <<>> THEN <<pair>>
    ELSE IF sq[1][2] <= pair[2]
         THEN <<sq[1]>> \o InsertSorted(pair, Tail(sq))
         ELSE <<pair>> \o sq

\* sorted(pairs, key=lambda x: x[1])
RECURSIVE SortedPairs(_)
SortedPairs(pairs) ==
    IF pairs = <<>> THEN <<>>
    ELSE InsertSorted(pairs[Len(pairs)],
                      SortedPairs(SubSeq(pairs, 1, Len(pairs) - 1)))

\* exc is "" when the call returns
filter_titles(post_titles, deltas, cutoff) ==
    LET sorted_pairs == SortedPairs(FilterPairs(post_titles, deltas, cutoff, 1))
    IN  IF sorted_pairs = <<>>
        THEN [exc |-> "ValueError", titles |-> <<>>, deltas |-> <<>>]
        ELSE [exc |-> "",
              titles |-> [i \in 1..Len(sorted_pairs) |-> sorted_pairs[i][1]],
              deltas |-> [i \in 1..Len(sorted_pairs) |-> sorted_pairs[i][2]]]

(***************************************************************************)
(* line_plot.  Lengths that the code computes in floating point (0.2 and   *)
(* 0.3 steps) are kept in tenths.                                          *)
(***************************************************************************)
\* range(cutoff, 0, 1)
XVals(cutoff) ==
    [i \in 1..(IF cutoff < 0 THEN -cutoff ELSE 0) |-> cutoff + i - 1]

\* Counter(deltas)[x]; a missing key counts 0
CounterGet(deltas, x) == Cardinality({i \in 1..Len(deltas) : deltas[i] = x})

\* the keys of Counter(deltas), in insertion (first occurrence) order
RECURSIVE CounterKeys(_)
CounterKeys(deltas) ==
    IF deltas = <<>> THEN <<>>
    ELSE LET before == CounterKeys(SubSeq(deltas, 1, Len(deltas) - 1))
             x == deltas[Len(deltas)]
         IN  IF \E i \in 1..Len(before) : before[i] = x
             THEN before
             ELSE Append(before, x)

RECURSIVE MaxOf(_)
MaxOf(sq) ==
    IF Len(sq) = 1 THEN sq[1]
    ELSE LET m == MaxOf(Tail(sq)) IN IF sq[1] >= m THEN sq[1] ELSE m

\* variant: the mask takes every offset from x on
RECURSIVE MaskSelect_From(_, _, _)
MaskSelect_From(post_titles, deltas, x) ==
    IF deltas = <<>> THEN <<>>
    ELSE (IF Head(deltas) >= x THEN <<Head(post_titles)>> ELSE <<>>)
         \o MaskSelect_From(Tail(post_titles), Tail(deltas), x)

\* titles_arr[deltas_arr == x]
RECURSIVE MaskSelect(_, _, _)
MaskSelect(post_titles, deltas, x) ==
    IF deltas = <<>> THEN <<>>
    ELSE (IF Head(deltas) = x THEN <<Head(post_titles)>> ELSE <<>>)
         \o MaskSelect(Tail(post_titles), Tail(deltas), x)

Separator == <<"\n", "+", "\n">>

\* '\n+\n'.join(strs)
RECURSIVE Join(_)
Join(strs) ==
    IF strs = <<>> THEN <<>>
    ELSE IF Len(strs) = 1 THEN strs[1]
    ELSE strs[1] \o Separator \o Join(Tail(strs))

XOffset == 2

MoodLimit == 14

\* variant: the callout reads the first offset of the list
LastPostDays_First(deltas, cutoff) ==
    IF Len(deltas) > 0
    THEN StrNat(Abs(deltas[1]))
    ELSE <<"+">> \o StrNat(Abs(cutoff))

\* variant: the callout of an empty list has no sign
LastPostDays_NoSign(deltas, cutoff) ==
    IF Len(deltas) > 0
    THEN StrNat(Abs(deltas[Len(deltas)]))
    ELSE StrNat(Abs(cutoff))

\* the text of the callout box
LastPostDays(deltas, cutoff) ==
    IF Len(deltas) > 0
    THEN StrNat(Abs(deltas[Len(deltas)]))
    ELSE <<"+">> \o StrNat(Abs(cutoff))

Exclam(last_post_days) ==
    IF IntOf(last_post_days) < MoodLimit THEN "\"Nice!\"" ELSE "\"UH OH!\""

\* ax.annotate(...) for the k-th key of the counter
Annotation(post_titles, deltas, keys, k, y_offset10) ==
    [text |-> Join(MaskSelect(post_titles, deltas, keys[k])),
     xy |-> <<keys[k], CounterGet(deltas, keys[k])>>,
     xytext |-> <<keys[k] + XOffset, y_offset10 - 2 * (k - 1)>>]

\* exc is "" when the call returns the figure
line_plot(post_titles, deltas, cutoff) ==
    LET x_vals == XVals(cutoff)
        keys == CounterKeys(deltas)
        y_vals == [i \in 1..Len(x_vals) |-> CounterGet(deltas, x_vals[i])]
        noFig == [x_vals |-> <<>>, y_vals |-> <<>>, max_y_val |-> 0,
                  ylim_top10 |-> 0, yticks |-> <<>>, annotations |-> <<>>,
                  last_post_days |-> <<>>, exclam |-> ""]
    IN  IF y_vals = <<>>
        THEN [exc |-> "ValueError"] @@ noFig
        ELSE IF keys # <<>> /\ Len(post_titles) # Len(deltas)
        THEN [exc |-> "IndexError"] @@ noFig
        ELSE LET max_y_val == MaxOf(y_vals)
                 y_offset10 == 10 * max_y_val + 2 * Len(keys) + 2
                 last_post_days == LastPostDays(deltas, cutoff)
             IN  [exc |-> "",
                  x_vals |-> x_vals,
                  y_vals |-> y_vals,
                  max_y_val |-> max_y_val,
                  ylim_top10 |-> 10 * max_y_val + 3 + 2 * Len(keys),
                  yticks |-> [i \in 1..(max_y_val + 1) |-> i - 1],
                  annotations |->
                      [k \in 1..Len(keys) |->
                          Annotation(post_titles, deltas, keys, k, y_offset10)],
                  last_post_days |-> last_post_days,
                  exclam |-> Exclam(last_post_days)]

(***************************************************************************)
(* The inputs: the _posts/ directory and the wall clock.                   *)
(***************************************************************************)
\* n written in w digits
RECURSIVE ZPad(_, _)
ZPad(n, w) == IF w = 0 THEN <<>> ELSE ZPad(n \div 10, w - 1) \o <<Digits[(n % 10) + 1]>>

DateName(y, m, d, tag) ==
    ZPad(y, 4) \o <<"-">> \o ZPad(m, 2) \o <<"-">> \o ZPad(d, 2) \o <<"-", tag>>

PlainLine == <<"x", "\n">>

RuleLine == <<"-", "-", "-", "\n">>

TitleLine(t) == TitlePattern \o <<t, "\n">>

PostFile(t) == <<RuleLine, TitleLine(t), RuleLine, PlainLine>>

UntitledFile == <<RuleLine, PlainLine>>

Entries ==
    { [name |-> DateName(2024, 3, 10, "a"), file |-> PostFile("A")],
      [name |-> DateName(2024, 3, 5, "b"), file |-> PostFile("B")],
      [name |-> DateName(2024, 3, 5, "c"), file |-> PostFile("C")],
      [name |-> DateName(2024, 2, 10, "d"), file |-> UntitledFile],
      [name |-> DateName(2024, 1, 1, "e"), file |-> PostFile("E")],
      [name |-> DateName(2024, 3, 12, "f"), file |-> PostFile("F")],
      [name |-> DateName(2024, 13, 40, "g"), file |-> PostFile("G")],
      [name |-> DateName(2024, 2, 25, "h"), file |-> PostFile("H")],
      [name |-> DateName(2023, 2, 29, "i"), file |-> PostFile("I")],
      [name |-> <<"R", "E", "A", "D", "M", "E">>, file |-> UntitledFile] }

\* os.listdir: distinct names, in any order
Listings ==
    UNION { { l \in [1..n -> Entries] : \A i, j \in 1..n : i # j => l[i] # l[j] }
            : n \in 0..MaxPosts }

Today == [y |-> 2024, m |-> 3, d |-> 10]

\* dt.datetime.today(): the date and the seconds since midnight
Clocks == { [date |-> Today, secs |-> s] : s \in {0, 45296} }

FileOf(listing, name) ==
    (CHOOSE i \in 1..Len(listing) : listing[i].name = name)

Line(msg, n) == [msg |-> msg, n |-> n]

NoCall == [fn |-> "", file |-> <<>>, post_titles |-> <<>>, deltas |-> <<>>,
           cutoff |-> 0]

(***************************************************************************)
(* The run of the script (the __main__ block).                             *)
(***************************************************************************)
Init ==
    /\ pc = "list_posts"
    /\ now \in Clocks
    /\ dir \in Listings
    /\ posts = <<>>
    /\ dates = <<>>
    /\ timedeltas = <<>>
    /\ titles = <<>>
    /\ plot = <<>>
    /\ saved = FALSE
    /\ stdout = <<>>
    /\ err = ""
    /\ call = NoCall
    /\ ret = <<>>

\* [post for post in post_list if date_match(post)]
list_posts(listing) ==
    SelectSeq([i \in 1..Len(listing) |-> listing[i].name],
              LAMBDA name : date_match(name) # <<>>)

ListPosts ==
    /\ pc = "list_posts"
    /\ posts' = list_posts(dir)
    /\ stdout' = Append(stdout, Line("Posts found!", Len(posts')))
    /\ pc' = "extract_dates"
    /\ UNCHANGED <<now, dir, dates, timedeltas, titles, plot, saved, err, call, ret>>

DateOk(post) == StrptimeOk(date_match(post)[1])

extract_dates(post_list) ==
    [i \in 1..Len(post_list) |-> ParseFields(date_match(post_list[i])[1])]

ExtractDates ==
    /\ pc = "extract_dates"
    /\ IF \A i \in 1..Len(posts) : DateOk(posts[i])
       THEN /\ dates' = extract_dates(posts)
            /\ pc' = "timedelta_dates"
            /\ err' = err
       ELSE /\ err' = "ValueError"
            /\ pc' = "aborted"
            /\ dates' = dates
    /\ UNCHANGED <<now, dir, posts, timedeltas, titles, plot, saved, stdout, call, ret>>

timedelta_dates(date_list, compare_date) ==
    [i \in 1..Len(date_list) |-> TimedeltaDays(date_list[i], compare_date)]

TimedeltaDates ==
    /\ pc = "timedelta_dates"
    /\ timedeltas' = timedelta_dates(dates, now)
    /\ pc' = "extract_titles"
    /\ UNCHANGED <<now, dir, posts, dates, titles, plot, saved, stdout, err, call, ret>>

extract_titles(listing, post_list) ==
    [i \in 1..Len(post_list) |->
        extract_title(listing[FileOf(listing, post_list[i])].file)]

ExtractTitles ==
    /\ pc = "extract_titles"
    /\ titles' = extract_titles(dir, posts)
    /\ pc' = "filter_titles"
    /\ UNCHANGED <<now, dir, posts, dates, timedeltas, plot, saved, stdout, err, call, ret>>

FilterTitles ==
    /\ pc = "filter_titles"
    /\ LET r == filter_titles(titles, timedeltas, DefaultCutoff) IN
       IF r.exc = ""
       THEN /\ titles' = r.titles
            /\ timedeltas' = r.deltas
            /\ stdout' = Append(Append(stdout,
                            Line("Posts after filtering", Len(r.titles))),
                            Line("Making plot...", 0))
            /\ pc' = "line_plot"
            /\ err' = err
       ELSE /\ err' = r.exc
            /\ pc' = "aborted"
            /\ UNCHANGED <<titles, timedeltas, stdout>>
    /\ UNCHANGED <<now, dir, posts, dates, plot, saved, call, ret>>

LinePlot ==
    /\ pc = "line_plot"
    /\ LET r == line_plot(titles, timedeltas, DefaultCutoff) IN
       IF r.exc = ""
       THEN /\ plot' = <<r>>
            /\ stdout' = Append(stdout, Line("Saving plot...", 0))
            /\ pc' = "savefig"
            /\ err' = err
       ELSE /\ err' = r.exc
            /\ pc' = "aborted"
            /\ UNCHANGED <<plot, stdout>>
    /\ UNCHANGED <<now, dir, posts, dates, timedeltas, titles, saved, call, ret>>

SaveFig ==
    /\ pc = "savefig"
    /\ saved' = TRUE
    /\ stdout' = Append(stdout, Line("Done", 0))
    /\ pc' = "exit"
    /\ UNCHANGED <<now, dir, posts, dates, timedeltas, titles, plot, err, call, ret>>

Next ==
    \/ ListPosts
    \/ ExtractDates
    \/ TimedeltaDates
    \/ ExtractTitles
    \/ FilterTitles
    \/ LinePlot
    \/ SaveFig

Spec == Init /\ [][Next]_vars

(***************************************************************************)
(* The functions called directly, as a library, on arbitrary arguments.    *)
(* The functions are pure, so one call per behaviour covers every call.    *)
(***************************************************************************)
RECURSIVE Pad(_)
Pad(k) == IF k = 0 THEN <<>> ELSE <<PlainLine>> \o Pad(k - 1)

\* what follows the leading plain lines of a file
Tails ==
    { <<>>,
      <<TitleLine("A")>>,
      <<TitlePattern \o <<"A">> >>,
      <<TitleMark \o <<"A", "\n">> >>,
      << <<" ", " ">> \o TitlePattern \o <<"A", " ", "\n">> >>,
      << <<"s", "u", "b">> \o TitleLine("B")>>,
      <<TitlePattern \o Sentinel \o <<"\n">> >>,
      <<TitleLine("A"), TitleLine("B")>>,
      <<TitleLine("B"), PlainLine>> }

Files == { Pad(k) \o t : k \in 0..MaxPad, t \in Tails }

ArgTitles == { <<"A">>, <<"B">> }

ArgDeltas == {-30, -14, -13, -2, 0}

Cutoffs == {-30, -13, -1, 0}

ArgPairs ==
    UNION { [1..n -> ArgTitles \X ArgDeltas] : n \in 0..MaxArgs }

TitlesOf(pairs) == [i \in 1..Len(pairs) |-> pairs[i][1]]

DeltasOf(pairs) == [i \in 1..Len(pairs) |-> pairs[i][2]]

InitCalls ==
    /\ pc = "imported"
    /\ now = [date |-> Today, secs |-> 0]
    /\ dir = <<>>
    /\ posts = <<>>
    /\ dates = <<>>
    /\ timedeltas = <<>>
    /\ titles = <<>>
    /\ plot = <<>>
    /\ saved = FALSE
    /\ stdout = <<>>
    /\ err = ""
    /\ call = NoCall
    /\ ret = <<>>

CallExtractTitle ==
    /\ pc = "imported"
    /\ \E file \in Files :
        /\ call' = [NoCall EXCEPT !.fn = "extract_title", !.file = file]
        /\ ret' = <<[exc |-> "", title |-> extract_title(file)]>>
    /\ pc' = "returned"
    /\ UNCHANGED runVars

CallFilterTitles ==
    /\ pc = "imported"
    /\ \E pairs \in ArgPairs, cutoff \in Cutoffs :
        /\ call' = [NoCall EXCEPT !.fn = "filter_titles",
                                  !.post_titles = TitlesOf(pairs),
                                  !.deltas = DeltasOf(pairs),
                                  !.cutoff = cutoff]
        /\ ret' = <<filter_titles(TitlesOf(pairs), DeltasOf(pairs), cutoff)>>
    /\ pc' = "returned"
    /\ UNCHANGED runVars

CallLinePlot ==
    /\ pc = "imported"
    /\ \E pairs \in ArgPairs, cutoff \in Cutoffs :
        /\ call' = [NoCall EXCEPT !.fn = "line_plot",
                                  !.post_titles = TitlesOf(pairs),
                                  !.deltas = DeltasOf(pairs),
                                  !.cutoff = cutoff]
        /\ ret' = <<line_plot(TitlesOf(pairs), DeltasOf(pairs), cutoff)>>
    /\ pc' = "returned"
    /\ UNCHANGED runVars

NextCalls ==
    \/ CallExtractTitle
    \/ CallFilterTitles
    \/ CallLinePlot

SpecCalls == InitCalls /\ [][NextCalls]_vars

(***************************************************************************)
(* Vocabulary of the properties.                                           *)
(***************************************************************************)
Range(sq) == { sq[i] : i \in 1..Len(sq) }

\* the elements of ts whose companion in ds is x, in list order
TitlesAt(ts, ds, x) ==
    LET idx == SelectSeq([i \in 1..Len(ds) |-> i], LAMBDA i : ds[i] = x)
    IN  [k \in 1..Len(idx) |-> ts[idx[k]]]

CountPair(ts, ds, t, d) ==
    Cardinality({ i \in 1..Len(ts) : ts[i] = t /\ ds[i] = d })

RECURSIVE SumSeq(_)
SumSeq(sq) == IF sq = <<>> THEN 0 ELSE Head(sq) + SumSeq(Tail(sq))

Returned(fn) == pc = "returned" /\ call.fn = fn

\* the run is over, normally or by an exception
Terminated == pc \in {"exit", "aborted"}

\* filter_titles has returned in the run
Filtered == pc \in {"line_plot", "savefig", "exit"}

\* line_plot has returned in the run
Plotted == pc \in {"savefig", "exit"}

\* the listed identifiers that match the date pattern
Matching == list_posts(dir)

FieldsOf(name) == ParseFields(SubSeq(name, 1, 10))

IsCalendarDate(f) ==
    /\ f.y >= 1
    /\ f.m >= 1 /\ f.m <= 12
    /\ f.d >= 1 /\ f.d <= DaysInMonth(f.y, f.m)

AllDatesReal == \A i \in 1..Len(Matching) : IsCalendarDate(FieldsOf(Matching[i]))

\* whole days from the reference instant to midnight of the post's date,
\* rounded down
RawDifference(name) ==
    LET days == ToOrdinal(FieldsOf(name)) - ToOrdinal(now.date)
    IN  IF now.secs = 0 THEN days ELSE days - 1

NothingKept ==
    /\ AllDatesReal
    /\ \A i \in 1..Len(Matching) : RawDifference(Matching[i]) <= DefaultCutoff

(***************************************************************************)
(* C1: when filtering removes every post (or no post is listed),           *)
(* filter_titles returns two empty sequences instead of raising, and the   *)
(* run goes on to render the plot and print 'Done'.                        *)
(***************************************************************************)
C1_EmptyFilterReachesDone ==
    (Terminated /\ NothingKept) =>
        /\ pc = "exit"
        /\ err = ""
        /\ titles = <<>>
        /\ timedeltas = <<>>
        /\ stdout # <<>> /\ stdout[Len(stdout)].msg = "Done"

(***************************************************************************)
(* C2: for equal-length lists with at least one post kept, filter_titles   *)
(* returns exactly the posts whose raw difference is strictly greater than *)
(* the cutoff, with their multiplicity, each with offset raw + 1.          *)
(***************************************************************************)
C2_FilterKeepsExactly ==
    (/\ Returned("filter_titles")
     /\ Len(call.post_titles) = Len(call.deltas)
     /\ \E i \in 1..Len(call.deltas) : call.deltas[i] > call.cutoff) =>
        LET r == ret[1]
            ts == Range(call.post_titles) \cup Range(r.titles)
            ds == Range(r.deltas) \cup { d + 1 : d \in Range(call.deltas) }
        IN  /\ r.exc = ""
            /\ Len(r.titles) = Len(r.deltas)
            /\ \A t \in ts, d \in ds :
                  CountPair(r.titles, r.deltas, t, d) =
                      IF d - 1 > call.cutoff
                      THEN CountPair(call.post_titles, call.deltas, t, d - 1)
                      ELSE 0

C2_Witness ==
    /\ Returned("filter_titles")
    /\ Len(call.deltas) = 3
    /\ Len(ret[1].titles) = 2
    /\ call.deltas[1] = call.cutoff
    /\ call.deltas[2] = call.deltas[3]
    /\ call.post_titles[2] = call.post_titles[3]

(***************************************************************************)
(* C3: the two lists filter_titles returns are co-sorted: offsets do not   *)
(* decrease, and the titles at each offset are the input titles that were  *)
(* paired with it, in their input order.                                   *)
(***************************************************************************)
C3_CoSortedStable ==
    (Returned("filter_titles") /\ ret[1].exc = "") =>
        LET r == ret[1] IN
        /\ \A i, j \in 1..Len(r.deltas) : i < j => r.deltas[i] <= r.deltas[j]
        /\ \A v \in Range(r.deltas) :
              TitlesAt(r.titles, r.deltas, v) =
                  TitlesAt(call.post_titles, call.deltas, v - 1)

C3_Witness ==
    /\ Returned("filter_titles")
    /\ ret[1].exc = ""
    /\ Len(ret[1].titles) = 3
    /\ call.deltas[1] > call.deltas[2]
    /\ call.deltas[1] = call.deltas[3]
    /\ call.post_titles[1] # call.post_titles[3]
    /\ ret[1].titles = <<call.post_titles[2], call.post_titles[1],
                         call.post_titles[3]>>

(***************************************************************************)
(* C4.                                                                     *)
(***************************************************************************)
HasMark(line) == \E i \in 1..Len(line) : MatchAt(line, TitleMark, i)

\* the indices, among the first n lines of the file, of the lines that
\* contain `title:`
MarkedWithin(file, n) ==
    { i \in 1..Min(n, Len(file)) : HasMark(file[i]) }

FirstOf(S) == CHOOSE i \in S : \A j \in S : i <= j

\* the title a marked line carries: the line stripped, `title: ` removed
TitleIn(line) == ReSubEmpty(TitlePattern, Strip(line))

\* C4 as stated: extract_title returns the sentinel "UH OH!" when none of
\* the first 11 lines contains `title:` (so also when `title:` first appears
\* on line 12 or later), and a `title:` line among the first 11 yields that
\* line's title.
C4_SentinelIffNoneInFirst11 ==
    Returned("extract_title") =>
        LET marked == MarkedWithin(call.file, 11) IN
        /\ marked = {} => ret[1].title = Sentinel
        /\ marked # {} => ret[1].title = TitleIn(call.file[FirstOf(marked)])

\* C4 amended: extract_title examines the first 12 lines.  It returns the
\* sentinel when none of them contains `title:`; otherwise it returns the
\* title of the first of them that does, which is the sentinel only when
\* that title is itself "UH OH!".
C4_SentinelIffNoneInFirst12 ==
    Returned("extract_title") =>
        LET marked == MarkedWithin(call.file, 12) IN
        /\ marked = {} => ret[1].title = Sentinel
        /\ marked # {} => ret[1].title = TitleIn(call.file[FirstOf(marked)])
        /\ (ret[1].title = Sentinel) <=>
              (marked = {} \/ TitleIn(call.file[FirstOf(marked)]) = Sentinel)

C4_Witness ==
    /\ Returned("extract_title")
    /\ Len(call.file) = 12
    /\ MarkedWithin(call.file, 12) = {12}
    /\ ret[1].title = <<"A">>

(***************************************************************************)
(* C5: in a run where at least one post is kept, the callout number is the *)
(* absolute value of the largest adjusted offset among the kept posts, and *)
(* the mood is "Nice!" exactly when that number is under 14.               *)
(***************************************************************************)
LargestOf(S) == CHOOSE m \in S : \A n \in S : n <= m

C5_CalloutIsMostRecent ==
    (Plotted /\ timedeltas # <<>>) =>
        LET days == Abs(LargestOf(Range(timedeltas))) IN
        /\ plot[1].last_post_days = StrNat(days)
        /\ (plot[1].exclam = "\"Nice!\"") <=> (days < 14)
        /\ (plot[1].exclam = "\"UH OH!\"") <=> (days >= 14)

C5_Witness ==
    /\ Plotted
    /\ Len(timedeltas) = 2
    /\ timedeltas[1] < timedeltas[2]
    /\ plot[1].last_post_days = <<"1", "3">>
    /\ plot[1].exclam = "\"Nice!\""

(***************************************************************************)
(* C6: line_plot called with no posts and a negative cutoff returns a      *)
(* figure: the maximum count is 0, every offset of [cutoff, 0) has count   *)
(* 0, nothing is annotated, the callout is '+' followed by abs(cutoff) and *)
(* the mood follows the under-14 rule on abs(cutoff).                      *)
(***************************************************************************)
C6_EmptyPlotIsDrawn ==
    (/\ Returned("line_plot")
     /\ call.post_titles = <<>>
     /\ call.deltas = <<>>
     /\ call.cutoff < 0) =>
        LET r == ret[1] IN
        /\ r.exc = ""
        /\ r.max_y_val = 0
        /\ Len(r.x_vals) = -call.cutoff
        /\ Range(r.x_vals) = call.cutoff..(-1)
        /\ Len(r.y_vals) = Len(r.x_vals)
        /\ \A i \in 1..Len(r.y_vals) : r.y_vals[i] = 0
        /\ r.annotations = <<>>
        /\ r.last_post_days = <<"+">> \o StrNat(-call.cutoff)
        /\ (r.exclam = "\"Nice!\"") <=> (-call.cutoff < 14)
        /\ (r.exclam = "\"UH OH!\"") <=> (-call.cutoff >= 14)
        /\ call.cutoff = -30 =>
              r.last_post_days = <<"+", "3", "0">> /\ r.exclam = "\"UH OH!\""

C6_Witness ==
    /\ Returned("line_plot")
    /\ call.deltas = <<>>
    /\ call.cutoff = -30
    /\ ret[1].exc = ""
    /\ ret[1].last_post_days = <<"+", "3", "0">>
    /\ ret[1].exclam = "\"UH OH!\""

(***************************************************************************)
(* C7: if a listed identifier matches the date pattern but is not a        *)
(* calendar date, the run aborts in extract_dates with a parse error: no   *)
(* title is read, nothing is filtered or plotted and no image is written,  *)
(* whatever the other posts are.                                           *)
(***************************************************************************)
C7_BadDateAbortsRun ==
    (~AllDatesReal) =>
        /\ pc \in {"list_posts", "extract_dates", "aborted"}
        /\ pc = "aborted" => err = "ValueError"
        /\ dates = <<>>
        /\ timedeltas = <<>>
        /\ titles = <<>>
        /\ plot = <<>>
        /\ saved = FALSE
        /\ \A i \in 1..Len(stdout) : stdout[i].msg = "Posts found!"

C7_Witness ==
    /\ pc = "aborted"
    /\ err = "ValueError"
    /\ Len(posts) = 3
    /\ IsCalendarDate(FieldsOf(posts[1]))
    /\ ~IsCalendarDate(FieldsOf(posts[2]))
    /\ FieldsOf(posts[2]).m = 2
    /\ IsCalendarDate(FieldsOf(posts[3]))

(***************************************************************************)
(* C8: every post kept by filter_titles has its adjusted offset inside the *)
(* window [cutoff, 0) that line_plot charts, so the counts over the window *)
(* sum to the number of kept posts.                                        *)
(***************************************************************************)
C8_KeptPostsInsideWindow ==
    Plotted =>
        /\ \A i \in 1..Len(timedeltas) :
              DefaultCutoff <= timedeltas[i] /\ timedeltas[i] < 0
        /\ SumSeq(plot[1].y_vals) = Len(titles)

(***************************************************************************)
(* C9: line_plot draws exactly one annotation per distinct offset among    *)
(* the posts; the annotation of offset x points at (x, number of posts     *)
(* with offset x) and its text is the titles of the posts with offset x,   *)
(* in list order, joined by "\n+\n"; the counts of the annotations add up  *)
(* to the number of posts.                                                 *)
(***************************************************************************)
C9_OneAnnotationPerOffset ==
    (Returned("line_plot") /\ ret[1].exc = "") =>
        LET anns == ret[1].annotations IN
        /\ { anns[k].xy[1] : k \in 1..Len(anns) } = Range(call.deltas)
        /\ Len(anns) = Cardinality(Range(call.deltas))
        /\ \A k \in 1..Len(anns) :
              LET x == anns[k].xy[1] IN
              /\ anns[k].xy[2] =
                    Cardinality({ i \in 1..Len(call.deltas) : call.deltas[i] = x })
              /\ anns[k].text = Join(TitlesAt(call.post_titles, call.deltas, x))
        /\ SumSeq([k \in 1..Len(anns) |-> anns[k].xy[2]]) = Len(call.post_titles)

C9_Witness ==
    /\ Returned("line_plot")
    /\ ret[1].exc = ""
    /\ call.deltas = <<-14, -2, -14>>
    /\ call.post_titles = <<(<<"B">>), (<<"A">>), (<<"A">>)>>
    /\ Len(ret[1].annotations) = 2
    /\ ret[1].annotations[1].text = <<"B", "\n", "+", "\n", "A">>
    /\ ret[1].annotations[1].xy = <<-14, 2>>

(***************************************************************************)
(* C10.                                                                    *)
(***************************************************************************)
\* the listed post whose title is t
PostsTitled(t) ==
    { j \in 1..Len(posts) : extract_titles(dir, posts)[j] = t }

\* C10 as stated: with the reference instant being the wall clock and post
\* dates at midnight, the adjusted offset of every kept post is the
\* difference of the calendar days plus 1 (a post of the same day lands at 1).
C10_OffsetIsCalendarDiffPlus1 ==
    Filtered =>
        \A i \in 1..Len(timedeltas) :
            \E j \in PostsTitled(titles[i]) :
                timedeltas[i] = ToOrdinal(dates[j]) - ToOrdinal(now.date) + 1

\* C10 amended: the adjusted offset of every kept post is the number of
\* whole days from the reference instant to the post's midnight, rounded
\* down, plus 1: the difference of the calendar days when the reference has
\* a time of day after midnight (a post of the same day lands at 0), and
\* that difference plus 1 only when the reference is exactly midnight.
C10_OffsetIsFlooredDiffPlus1 ==
    Filtered =>
        \A i \in 1..Len(timedeltas) :
            \E j \in PostsTitled(titles[i]) :
                timedeltas[i] = ToOrdinal(dates[j]) - ToOrdinal(now.date)
                                    + (IF now.secs = 0 THEN 1 ELSE 0)

C10_Witness ==
    /\ Filtered
    /\ now.secs > 0
    /\ Len(timedeltas) = 2
    /\ \E j \in 1..Len(dates) : dates[j] = now.date
    /\ timedeltas[2] = 0

====
